---------------------------- MODULE Spec2Model ----------------------------
(***************************************************************************)
(* examples/simple/main.py of bldr: the entry point main(), which imports  *)
(* the helpers of the sibling module utils, prints a greeting, a sum, an   *)
(* aggregate of a fixed list, the working directory and, when present,     *)
(* the command-line arguments.                                             *)
(*                                                                         *)
(* A text is a sequence of one-character strings, so that formatting      *)
(* (str of an integer, repr of a list of strings, a line break inside a    *)
(* path) is computed and not assumed.  stdout is the sequence of texts     *)
(* handed to print, each of which print ends with one line break.          *)
(*                                                                         *)
(* The helpers greet, add, process_data and FileHandler live in utils.py,  *)
(* which is not among the source files; they are modelled from the         *)
(* specification (sections 4.1 to 4.4).                                    *)
(***************************************************************************)
EXTENDS Integers, Sequences, FiniteSets

\* ------------------------------------------------------------- bounds
\* Most command-line arguments after the program name.
MaxArgs == 2
\* Most changes the environment makes to the working directory during a run.
MaxEnvChanges == 2
\* Integers handed to add and process_data by a caller: -MaxInt .. MaxInt.
MaxInt == 2
\* Longest sequence handed to process_data by a caller.
MaxSeqLen == 3
\* Longest name handed to greet by a caller.
MaxNameLen == 2

\* ------------------------------------------------------ texts of main
Builder == <<"B", "u", "i", "l", "d", "e", "r">>
AddLabel == <<"2", " ", "+", " ", "3", " ", "=", " ">>
ProcessedLabel == <<"P", "r", "o", "c", "e", "s", "s", "e", "d", " ", "d", "a", "t", "a", ":", " ">>
WdLabel == <<"W", "o", "r", "k", "i", "n", "g", " ", "d", "i", "r", "e", "c", "t", "o", "r", "y", ":", " ">>
ArgsLabel == <<"A", "r", "g", "u", "m", "e", "n", "t", "s", ":", " ">>
ProgName == <<"m", "a", "i", "n", ".", "p", "y">>
\* Fault variant of MainData: the last element dropped.
MainDataShort == <<1, 2, 3, 4>>
MainData == <<1, 2, 3, 4, 5>>

\* --------------------------------------------------- inputs of a launch
\* Arguments a user can pass: empty, plain, flag-like, with quotes, with a
\* backslash, with a line break, and one that looks like a list separator.
ArgStrings ==
  { <<>>, <<"a">>, <<"b">>, <<"-", "h">>, <<"'">>, <<"'", "\"">>,
    <<"\\", "n">>, <<"\n">>, <<"a", "'", ",", " ", "'", "b">> }

\* Paths the environment can report; a path component may hold a line break.
CwdPaths == { <<"/">>, <<"/", "w">>, <<"/", "w", "\n", "x">> }

RECURSIVE SeqsUpTo(_, _)
SeqsUpTo(S, n) ==
  IF n = 0 THEN { <<>> }
  ELSE LET shorter == SeqsUpTo(S, n - 1)
       IN  shorter \cup { Append(s, x) : s \in { t \in shorter : Len(t) = n - 1 }, x \in S }

ArgVectors == { <<ProgName>> \o a : a \in SeqsUpTo(ArgStrings, MaxArgs) }

\* ---------------------------------------------- formatting (Python)
Digit(d) == CASE d = 0 -> "0" [] d = 1 -> "1" [] d = 2 -> "2" [] d = 3 -> "3"
              [] d = 4 -> "4" [] d = 5 -> "5" [] d = 6 -> "6" [] d = 7 -> "7"
              [] d = 8 -> "8" [] d = 9 -> "9"

RECURSIVE NatStr(_)
NatStr(n) == IF n < 10 THEN <<Digit(n)>> ELSE NatStr(n \div 10) \o <<Digit(n % 10)>>

\* str(n) as an f-string field formats an int: decimal, "-" for a negative.
IntStr(n) == IF n < 0 THEN <<"-">> \o NatStr(0 - n) ELSE NatStr(n)

Contains(s, c) == \E i \in 1..Len(s) : s[i] = c

\* The quote repr(str) uses: ' unless the text holds a ' and no ".
ReprQuote(s) == IF Contains(s, "'") /\ ~Contains(s, "\"") THEN "\"" ELSE "'"

ReprChar(c, q) ==
  IF c = q \/ c = "\\" THEN <<"\\", c>>
  ELSE IF c = "\n" THEN <<"\\", "n">>
  ELSE <<c>>

RECURSIVE ReprBody(_, _)
ReprBody(s, q) == IF s = <<>> THEN <<>> ELSE ReprChar(Head(s), q) \o ReprBody(Tail(s), q)

\* repr of a str: quoted, the quote, the backslash and the line break escaped.
ReprStr(s) == LET q == ReprQuote(s) IN <<q>> \o ReprBody(s, q) \o <<q>>

RECURSIVE ReprItems(_)
ReprItems(l) ==
  IF l = <<>> THEN <<>>
  ELSE IF Len(l) = 1 THEN ReprStr(l[1])
  ELSE ReprStr(l[1]) \o <<",", " ">> \o ReprItems(Tail(l))

\* repr of a list of str, as the f-string field {sys.argv[1:]} formats it.
ReprList(l) == <<"[">> \o ReprItems(l) \o <<"]">>

\* Fault variant of ArgsSlice: sys.argv in place of sys.argv[1:].
ArgsSliceWhole(v) == v

\* sys.argv[1:]
ArgsSlice(v) == SubSeq(v, 2, Len(v))

\* ------------------------------------------ utils (from the specification)
GreetPrefix == <<"H", "e", "l", "l", "o", ",", " ">>
GreetSuffix == <<"!">>

\* greet(name): a formatted greeting incorporating the name.
greet(name) == GreetPrefix \o name \o GreetSuffix

\* add(a, b): the sum of two integers (Python integers do not overflow).
add(a, b) == a + b

\* process_data(data): the sum of the sequence, 0 for the empty one.
RECURSIVE process_data(_)
process_data(data) == IF data = <<>> THEN 0 ELSE Head(data) + process_data(Tail(data))

\* FileHandler(): an object with no fields of its own.  createdIn records
\* the directory reported when it was built, for the no-caching claim only.
FileHandler(dir) == [made |-> TRUE, createdIn |-> dir]

NoHandler == [made |-> FALSE, createdIn |-> <<>>]

\* handler.get_cwd(): the path the environment reports at the call.
get_cwd(h, dir) == dir

\* ------------------------------------------------------------- state
VARIABLES
  argv,        \* sys.argv: the program name, then the arguments
  utilsOk,     \* whether `from utils import ...` can load the module
  cwd,         \* the path the environment reports for the working directory
  cwdOk,       \* whether the environment can report a working directory
  envChanges,  \* changes the environment has made so far
  pc,          \* the statement of main that runs next
  data,        \* main's local data
  result,      \* main's local result
  handler,     \* main's local handler
  stdout,      \* the texts printed so far, one per print call
  stderr,      \* the diagnostics written so far
  exc,         \* the exception in flight, "none" when there is none
  exitCode,    \* the process's exit status, -1 while it runs
  callFn,      \* a caller of utils: the helper it calls, "none" for no caller
  callArgs,    \* a caller of utils: the arguments
  callRet,     \* a caller of utils: the value returned
  callDone     \* a caller of utils: whether the call has returned

env == <<utilsOk, cwd, cwdOk, envChanges>>
locals == <<data, result, handler>>
caller == <<callFn, callArgs, callRet, callDone>>
vars == <<argv, utilsOk, cwd, cwdOk, envChanges, pc, data, result, handler,
          stdout, stderr, exc, exitCode, callFn, callArgs, callRet, callDone>>

\* print(text): one text, ended by one line break, appended to stdout.
PrintLine(out, text) == Append(out, text)

MainInit ==
  /\ pc = "import"
  /\ data = <<>>
  /\ result = 0
  /\ handler = NoHandler
  /\ stdout = <<>>
  /\ stderr = <<>>
  /\ exc = "none"
  /\ exitCode = -1

NoCaller ==
  /\ callFn = "none"
  /\ callArgs = <<>>
  /\ callRet = <<>>
  /\ callDone = FALSE

Init ==
  /\ argv \in ArgVectors
  /\ utilsOk \in BOOLEAN
  /\ cwd \in CwdPaths
  /\ cwdOk \in BOOLEAN
  /\ envChanges = 0
  /\ MainInit
  /\ NoCaller

\* ------------------------------------------------------ steps of main
\* from utils import greet, add, process_data, FileHandler
StepImport ==
  /\ pc = "import"
  /\ IF utilsOk
     THEN pc' = "greet" /\ exc' = exc
     ELSE pc' = "raise" /\ exc' = "ModuleNotFoundError"
  /\ UNCHANGED <<argv, env, locals, stdout, stderr, exitCode, caller>>

\* Fault variant of StepGreet: another name is greeted.
StepGreetWorld ==
  /\ pc = "greet"
  /\ stdout' = PrintLine(stdout, greet(<<"W", "o", "r", "l", "d">>))
  /\ pc' = "add"
  /\ UNCHANGED <<argv, env, locals, stderr, exc, exitCode, caller>>

\* print(greet("Builder"))
StepGreet ==
  /\ pc = "greet"
  /\ stdout' = PrintLine(stdout, greet(Builder))
  /\ pc' = "add"
  /\ UNCHANGED <<argv, env, locals, stderr, exc, exitCode, caller>>

\* Fault variant of StepAdd: add is handed other operands than the label names.
StepAddOperands ==
  /\ pc = "add"
  /\ stdout' = PrintLine(stdout, AddLabel \o IntStr(add(2, 2)))
  /\ pc' = "data"
  /\ UNCHANGED <<argv, env, locals, stderr, exc, exitCode, caller>>

\* print(f"2 + 3 = {add(2, 3)}")
StepAdd ==
  /\ pc = "add"
  /\ stdout' = PrintLine(stdout, AddLabel \o IntStr(add(2, 3)))
  /\ pc' = "data"
  /\ UNCHANGED <<argv, env, locals, stderr, exc, exitCode, caller>>

\* data = [1, 2, 3, 4, 5]
StepData ==
  /\ pc = "data"
  /\ data' = MainData
  /\ pc' = "process"
  /\ UNCHANGED <<argv, env, result, handler, stdout, stderr, exc, exitCode, caller>>

\* result = process_data(data)
StepProcess ==
  /\ pc = "process"
  /\ result' = process_data(data)
  /\ pc' = "report"
  /\ UNCHANGED <<argv, env, data, handler, stdout, stderr, exc, exitCode, caller>>

\* print(f"Processed data: {result}")
StepReport ==
  /\ pc = "report"
  /\ stdout' = PrintLine(stdout, ProcessedLabel \o IntStr(result))
  /\ pc' = "handler"
  /\ UNCHANGED <<argv, env, locals, stderr, exc, exitCode, caller>>

\* Fault variant of StepHandler: building the handler changes directory to /.
StepHandlerChdir ==
  /\ pc = "handler"
  /\ handler' = FileHandler(cwd)
  /\ cwd' = <<"/">>
  /\ pc' = "getcwd"
  /\ UNCHANGED <<argv, utilsOk, cwdOk, envChanges, data, result, stdout, stderr, exc,
                 exitCode, caller>>

\* handler = FileHandler()
StepHandler ==
  /\ pc = "handler"
  /\ handler' = FileHandler(cwd)
  /\ pc' = "getcwd"
  /\ UNCHANGED <<argv, env, data, result, stdout, stderr, exc, exitCode, caller>>

\* Fault variant of StepGetCwd: the failure is caught and main carries on.
StepGetCwdCaught ==
  /\ pc = "getcwd"
  /\ IF cwdOk
     THEN stdout' = PrintLine(stdout, WdLabel \o get_cwd(handler, cwd))
     ELSE stdout' = stdout
  /\ pc' = "args"
  /\ UNCHANGED <<argv, env, locals, stderr, exc, exitCode, caller>>

\* Fault variant of StepGetCwd: the label is printed before the query is made.
StepGetCwdLabelFirst ==
  /\ pc = "getcwd"
  /\ IF cwdOk
     THEN /\ stdout' = PrintLine(stdout, WdLabel \o get_cwd(handler, cwd))
          /\ pc' = "args"
          /\ exc' = exc
     ELSE /\ stdout' = PrintLine(stdout, WdLabel)
          /\ pc' = "raise"
          /\ exc' = "OSError"
  /\ UNCHANGED <<argv, env, locals, stderr, exitCode, caller>>

\* print(f"Working directory: {handler.get_cwd()}"); the query raises when
\* the environment cannot report a directory, and main has no handler for it.
StepGetCwd ==
  /\ pc = "getcwd"
  /\ IF cwdOk
     THEN /\ stdout' = PrintLine(stdout, WdLabel \o get_cwd(handler, cwd))
          /\ pc' = "args"
          /\ exc' = exc
     ELSE /\ stdout' = stdout
          /\ pc' = "raise"
          /\ exc' = "OSError"
  /\ UNCHANGED <<argv, env, locals, stderr, exitCode, caller>>

\* Fault variant of StepArgs: the test is len(sys.argv) >= 1.
StepArgsAlways ==
  /\ pc = "args"
  /\ stdout' = PrintLine(stdout, ArgsLabel \o ReprList(ArgsSlice(argv)))
  /\ pc' = "return"
  /\ UNCHANGED <<argv, env, locals, stderr, exc, exitCode, caller>>

\* Fault variant of StepArgs: -h is read as a flag and ends the run early.
StepArgsFlags ==
  /\ pc = "args"
  /\ IF Len(argv) > 1 /\ argv[2] = <<"-", "h">>
     THEN stdout' = stdout /\ pc' = "raise" /\ exc' = "SystemExit"
     ELSE /\ stdout' = IF Len(argv) > 1
                       THEN PrintLine(stdout, ArgsLabel \o ReprList(ArgsSlice(argv)))
                       ELSE stdout
          /\ pc' = "return"
          /\ exc' = exc
  /\ UNCHANGED <<argv, env, locals, stderr, exitCode, caller>>

\* if len(sys.argv) > 1: print(f"Arguments: {sys.argv[1:]}")
StepArgs ==
  /\ pc = "args"
  /\ IF Len(argv) > 1
     THEN stdout' = PrintLine(stdout, ArgsLabel \o ReprList(ArgsSlice(argv)))
     ELSE stdout' = stdout
  /\ pc' = "return"
  /\ UNCHANGED <<argv, env, locals, stderr, exc, exitCode, caller>>

\* main() returns to the module, the module ends: the interpreter exits 0.
StepReturn ==
  /\ pc = "return"
  /\ pc' = "exited"
  /\ exitCode' = 0
  /\ UNCHANGED <<argv, env, locals, stdout, stderr, exc, caller>>

\* An exception leaves main() and the module: the interpreter writes the
\* traceback to stderr and exits 1.
StepUncaught ==
  /\ pc = "raise"
  /\ pc' = "exited"
  /\ stderr' = Append(stderr, exc)
  /\ exitCode' = 1
  /\ UNCHANGED <<argv, env, locals, stdout, exc, caller>>

MainNext ==
  \/ StepImport
  \/ StepGreet
  \/ StepAdd
  \/ StepData
  \/ StepProcess
  \/ StepReport
  \/ StepHandler
  \/ StepGetCwd
  \/ StepArgs
  \/ StepReturn
  \/ StepUncaught

\* ------------------------------------------------------ environment
\* Another process renames the working directory: the reported path changes.
EnvRename ==
  /\ pc # "exited"
  /\ envChanges < MaxEnvChanges
  /\ cwdOk
  /\ \E p \in CwdPaths \ {cwd} : cwd' = p
  /\ envChanges' = envChanges + 1
  /\ UNCHANGED <<argv, utilsOk, cwdOk, pc, locals, stdout, stderr, exc, exitCode, caller>>

\* Another process removes the working directory: no path can be reported.
EnvRemove ==
  /\ pc # "exited"
  /\ envChanges < MaxEnvChanges
  /\ cwdOk
  /\ cwdOk' = FALSE
  /\ envChanges' = envChanges + 1
  /\ UNCHANGED <<argv, utilsOk, cwd, pc, locals, stdout, stderr, exc, exitCode, caller>>

EnvNext == EnvRename \/ EnvRemove

Next == MainNext \/ EnvNext

Spec == Init /\ [][Next]_vars

\* The interpreter runs main's next statement whenever there is one.
FairSpec == Spec /\ WF_vars(MainNext)

\* ------------------------------------------------- callers of utils
\* A caller other than main applies one helper to one input.
IntRange == (0 - MaxInt) .. MaxInt

NameChars == { "B", " ", "\n" }

Names == SeqsUpTo(NameChars, MaxNameLen) \cup { Builder }

CallerInputs ==
  { <<"greet", <<n>>>> : n \in Names }
    \cup { <<"add", <<a, b>>>> : a \in IntRange, b \in IntRange }
    \cup { <<"process_data", <<xs>>>> : xs \in SeqsUpTo(IntRange, MaxSeqLen) }

PureInit ==
  /\ argv = <<ProgName>>
  /\ utilsOk = TRUE
  /\ cwd = <<"/", "w">>
  /\ cwdOk \in BOOLEAN
  /\ envChanges = 0
  /\ MainInit
  /\ \E in \in CallerInputs : callFn = in[1] /\ callArgs = in[2]
  /\ callRet = <<>>
  /\ callDone = FALSE

CallGreet ==
  /\ callFn = "greet"
  /\ ~callDone
  /\ callRet' = greet(callArgs[1])
  /\ callDone' = TRUE
  /\ UNCHANGED <<argv, env, pc, locals, stdout, stderr, exc, exitCode, callFn, callArgs>>

CallAdd ==
  /\ callFn = "add"
  /\ ~callDone
  /\ callRet' = add(callArgs[1], callArgs[2])
  /\ callDone' = TRUE
  /\ UNCHANGED <<argv, env, pc, locals, stdout, stderr, exc, exitCode, callFn, callArgs>>

CallProcessData ==
  /\ callFn = "process_data"
  /\ ~callDone
  /\ callRet' = process_data(callArgs[1])
  /\ callDone' = TRUE
  /\ UNCHANGED <<argv, env, pc, locals, stdout, stderr, exc, exitCode, callFn, callArgs>>

PureNext == CallGreet \/ CallAdd \/ CallProcessData \/ MainNext

PureSpec == PureInit /\ [][PureNext]_vars

\* ===================================================== properties
\* ---------------------------------------------- reading the output
HasPrefix(t, pre) == Len(t) >= Len(pre) /\ SubSeq(t, 1, Len(pre)) = pre

Drop(t, n) == SubSeq(t, n + 1, Len(t))

IsSubstring(sub, t) ==
  \E i \in 0 .. (Len(t) - Len(sub)) : SubSeq(t, i + 1, i + Len(sub)) = sub

LineBreaks(t) == Cardinality({ i \in 1..Len(t) : t[i] = "\n" })

\* Lines on standard output: each print ends its text with one line break,
\* and a line break inside the text starts a further line.
RECURSIVE LineCount(_)
LineCount(out) == IF out = <<>> THEN 0 ELSE 1 + LineBreaks(Head(out)) + LineCount(Tail(out))

\* Reading a printed list of strings back, as Python reads a list display:
\* the text of a string runs from its opening quote to the next unescaped
\* occurrence of that quote; \n is a line break, \c is c.
RECURSIVE ReadStr(_, _, _, _)
ReadStr(t, i, q, acc) ==
  IF t[i] = q THEN [val |-> acc, next |-> i + 1]
  ELSE IF t[i] = "\\"
       THEN ReadStr(t, i + 2, q, Append(acc, IF t[i + 1] = "n" THEN "\n" ELSE t[i + 1]))
       ELSE ReadStr(t, i + 1, q, Append(acc, t[i]))

RECURSIVE ReadItems(_, _, _)
ReadItems(t, i, acc) ==
  LET r == ReadStr(t, i + 1, t[i], <<>>)
  IN  IF t[r.next] = "]" THEN Append(acc, r.val)
      ELSE ReadItems(t, r.next + 2, Append(acc, r.val))

ReadList(t) == IF t = <<"[", "]">> THEN <<>> ELSE ReadItems(t, 2, <<>>)

PlainText(t) == \A i \in 1..Len(t) : t[i] \notin { "'", "\"", "\\", "\n" }

ArgsLines == { i \in 1..Len(stdout) : HasPrefix(stdout[i], ArgsLabel) }

WdLines == { i \in 1..Len(stdout) : HasPrefix(stdout[i], WdLabel) }

\* The run failed in the platform: utils could not be loaded, or the
\* environment could not report a working directory.
PlatformFailure == exc \in { "ModuleNotFoundError", "OSError" }

NormalExit == pc = "exited" /\ exc = "none"

\* The line an arguments line must be for the arguments given at launch.
EchoesArguments(i) ==
  LET body == Drop(stdout[i], Len(ArgsLabel))
  IN  /\ ReadList(body) = Tail(argv)
      /\ \A k \in 2..Len(argv) : PlainText(argv[k]) => IsSubstring(argv[k], body)

PrintsAt ==
  CASE pc \in { "import", "greet" } -> 0
    [] pc = "add" -> 1
    [] pc \in { "data", "process", "report" } -> 2
    [] pc \in { "handler", "getcwd" } -> 3
    [] pc = "args" -> 4
    [] pc = "return" -> IF Len(argv) > 1 THEN 5 ELSE 4
    [] pc \in { "raise", "exited" } ->
         IF exc = "ModuleNotFoundError" THEN 0
         ELSE IF exc = "OSError" THEN 3
         ELSE IF Len(argv) > 1 THEN 5 ELSE 4

\* C2 as stated: a normal run writes 4 lines without arguments and 5 with.
C2_FourOrFiveLines ==
  NormalExit => LineCount(stdout) = IF Len(argv) > 1 THEN 5 ELSE 4

\* C2 amended: the steps run one after another in the order greeting,
\* addition, data processing, working-directory query, argument echo, each
\* printing step makes exactly one print call, so a normal run makes 4 print
\* calls without arguments and 5 with, in that order; every printed text is
\* one line except the working-directory text, which has one further line
\* for each line break in the reported path.
C2_OrderedPrints ==
  /\ Len(stdout) = PrintsAt
  /\ Len(stdout) >= 1 => IsSubstring(Builder, stdout[1])
  /\ Len(stdout) >= 2 => HasPrefix(stdout[2], AddLabel)
  /\ Len(stdout) >= 3 => HasPrefix(stdout[3], ProcessedLabel)
  /\ Len(stdout) >= 4 => HasPrefix(stdout[4], WdLabel)
  /\ Len(stdout) >= 5 => HasPrefix(stdout[5], ArgsLabel)
  /\ \A i \in 1..Len(stdout) : i # 4 => LineBreaks(stdout[i]) = 0
  /\ LineCount(stdout) =
       Len(stdout) + (IF Len(stdout) >= 4 THEN LineBreaks(Drop(stdout[4], Len(WdLabel))) ELSE 0)
  /\ NormalExit => Len(stdout) = IF Len(argv) > 1 THEN 5 ELSE 4

C2_Witness ==
  /\ NormalExit
  /\ Len(argv) > 1
  /\ Len(stdout) = 5
  /\ LineCount(stdout) = 6

\* C3: every run ends, and a run that ends without a platform failure ends
\* with exit code 0, whatever arguments it was given.
C3_TerminatesWithZero ==
  /\ <>(pc = "exited")
  /\ [](pc = "exited" /\ ~PlatformFailure => exitCode = 0)

C3_Witness ==
  /\ pc = "exited"
  /\ exitCode = 0
  /\ Len(argv) = 3
  /\ argv[2] = <<"-", "h">>

\* The sum of a sequence, taken from its last element.
RECURSIVE SumOf(_)
SumOf(xs) ==
  IF xs = <<>> THEN 0 ELSE SumOf(SubSeq(xs, 1, Len(xs) - 1)) + xs[Len(xs)]

\* C4: process_data returns the sum of the sequence it is given, 0 for the
\* empty sequence, and main's processed-data line shows 15, the sum of
\* [1, 2, 3, 4, 5].
C4_ProcessDataSums ==
  /\ (callFn = "process_data" /\ callDone) =>
       /\ callRet = SumOf(callArgs[1])
       /\ callArgs[1] = <<>> => callRet = 0
  /\ pc \in { "report", "handler", "getcwd", "args", "return" } => result = 15
  /\ Len(stdout) >= 3 => stdout[3] = ProcessedLabel \o <<"1", "5">>

C4_Witness ==
  /\ callFn = "process_data"
  /\ callDone
  /\ callArgs[1] = <<>>
  /\ callRet = 0
  /\ Len(stdout) >= 3

\* C5: add returns a + b, commutes and associates, and main's addition line
\* shows 5.
C5_AddIsSum ==
  /\ (callFn = "add" /\ callDone) =>
       /\ callRet = callArgs[1] + callArgs[2]
       /\ callRet = add(callArgs[2], callArgs[1])
       /\ \A c \in IntRange :
            add(callRet, c) = add(callArgs[1], add(callArgs[2], c))
  /\ Len(stdout) >= 2 => stdout[2] = AddLabel \o <<"5">>

C5_Witness ==
  /\ callFn = "add"
  /\ callDone
  /\ callArgs = <<0 - MaxInt, 1>>
  /\ Len(stdout) >= 2

\* C6: greet returns for every name, the empty one included, a text that
\* holds the name as a contiguous part, and main's first line holds Builder.
C6_GreetHoldsName ==
  /\ (callFn = "greet" /\ ~callDone) => ENABLED CallGreet
  /\ (callFn = "greet" /\ callDone) =>
       /\ IsSubstring(callArgs[1], callRet)
       /\ Len(callRet) > 0
  /\ Len(stdout) >= 1 => IsSubstring(Builder, stdout[1])

C6_Witness ==
  /\ callFn = "greet"
  /\ callDone
  /\ callArgs[1] = <<>>
  /\ Len(stdout) >= 1

C9_FailurePropagates ==
  /\ exc = "OSError" =>
       /\ pc \in { "raise", "exited" }
       /\ pc = "exited" => (exitCode = 1 /\ stderr = <<"OSError">>)
  /\ (pc \in { "args", "return" } \/ (pc = "exited" /\ exitCode = 0)) => WdLines = { 4 }

C9_Witness ==
  /\ pc = "exited"
  /\ exc = "OSError"
  /\ exitCode = 1
  /\ envChanges > 0

\* C10: after a failed working-directory query standard output holds the
\* greeting, addition and processed-data lines, in that order, and nothing
\* else, arguments or not; after a failed import it holds nothing.
C10_PartialOutput ==
  /\ exc = "OSError" =>
       /\ Len(stdout) = 3
       /\ IsSubstring(Builder, stdout[1])
       /\ stdout[2] = AddLabel \o <<"5">>
       /\ stdout[3] = ProcessedLabel \o <<"1", "5">>
       /\ WdLines = {}
       /\ ArgsLines = {}
  /\ exc = "ModuleNotFoundError" => stdout = <<>>

C10_Witness ==
  /\ pc = "exited"
  /\ exc = "OSError"
  /\ Len(argv) > 1
  /\ Len(stdout) = 3

=============================================================================
